---- MODULE Spec2Model ----
(***************************************************************************)
(* SOS chat relay (src/src/index.ts): the room entity SOSRoom, the rate    *)
(* limiter entity SOSRateLimiter and the router that couples them.         *)
(*                                                                         *)
(* Time is counted in ticks, TicksPerSecond ticks to a second, so that the *)
(* fractional seconds of nowSeconds() (Date.now() / 1000) are represented. *)
(* Every duration of the source is given in seconds and converted by Sec.  *)
(***************************************************************************)
EXTENDS Integers, Sequences, FiniteSets, TLC

VARIABLES
  now,      \* the wall clock read by nowSeconds(), in ticks
  rate,     \* storage of the rate limiter entity: address -> RateEntry
  rooms,    \* storage key 'room' of each room entity: entity key -> RoomData
  resp,     \* result of the operation executed by the last step
  nsent,    \* number of message ids generated so far
  reqs,     \* router: the POST /room requests between their two awaits
  resets,   \* router: resetRateLimit calls started and not yet executed
  joined,   \* addresses with a successful join and no check since then
  caller,   \* a polling client of a room: what it has seen so far
  hints,    \* the denials each address was given since its last allowed check
  calls     \* room entity: the requests between getRoom and readJson

vars == <<now, rate, rooms, resp, nsent, reqs, resets, joined, caller, hints,
          calls>>

routerVars == <<reqs, resets, joined>>

----------------------------------------------------------------------------
(* Program constants.                                                      *)

ROOM_TTL_SECONDS == 3600
MAX_MESSAGES == 500
RATE_LIMIT_COOLDOWN_SECONDS == 1800
RATE_LIMIT_DELAYS_SECONDS == <<0, 10, 30, 60, 180, 300>>
HASH_LENGTH == 16
NICKNAME_LENGTH == 20

(* Bounds of the model.                                                    *)

TicksPerSecond == 2

Sec(s) == s * TicksPerSecond

Min(a, b) == IF a < b THEN a ELSE b
Max(a, b) == IF a < b THEN b ELSE a

\* A rounding of d ticks to whole seconds that drops the fraction.
CeilTruncated(d) == d \div TicksPerSecond

\* Math.ceil of a duration of d ticks, in whole seconds.
Ceil(d) == IF d >= 0 THEN (d + TicksPerSecond - 1) \div TicksPerSecond
                     ELSE -((-d) \div TicksPerSecond)

\* Math.floor of a duration of d ticks, in whole seconds.
Floor(d) == IF d >= 0 THEN d \div TicksPerSecond
                      ELSE -(((-d) + TicksPerSecond - 1) \div TicksPerSecond)

\* A stored map m without key k (storage.delete, the delete operator).
Without(m, k) == [x \in DOMAIN m \ {k} |-> m[x]]

\* A stored map m with key k set to v (storage.put, assignment to a key).
With(m, k, v) == [x \in DOMAIN m \cup {k} |-> IF x = k THEN v ELSE m[x]]

NoResp == [op |-> "none"]

Idle == [pc |-> "idle"]

\* A client that has neither joined nor polled: since is the timestamp it
\* polls with next, got the ids of the messages returned to it, mark the
\* number of messages sent when it last joined or polled.
NoCaller == [since |-> 0, got |-> {}, mark |-> 0]

----------------------------------------------------------------------------
(* SOSRateLimiter.                                                         *)

Addresses == {"10.0.0.1", "10.0.0.2"}

\* A capped escalation table that is one entry too short.
requiredDelayShortCap(count) ==
  LET delayIndex == Min(count, Len(RATE_LIMIT_DELAYS_SECONDS) - 2)
  IN  RATE_LIMIT_DELAYS_SECONDS[delayIndex + 1]

\* Lines 418-419: the delay, in seconds, an entry with this count must wait
\* out (the table is indexed from 0 in the source).
requiredDelay(count) ==
  LET delayIndex == Min(count, Len(RATE_LIMIT_DELAYS_SECONDS) - 1)
  IN  RATE_LIMIT_DELAYS_SECONDS[delayIndex + 1]

\* A cooldown that never elapses.
cooledDownNever(entry, t) == FALSE

\* Line 413: the cooldown has fully elapsed since the last attempt.
cooledDown(entry, t) ==
  t - entry.last_attempt > Sec(RATE_LIMIT_COOLDOWN_SECONDS)

\* An attempt accepted only after more than the required delay.
acceptedStrictly(elapsed, required) == elapsed > required

\* Line 422: the attempt has waited long enough.
accepted(elapsed, required) == elapsed >= required

\* A denial that counts as an attempt.
deniedStoreTouched(store, ip, t) ==
  With(store, ip, [count |-> store[ip].count, last_attempt |-> t])

\* Line 427: a denial writes nothing.
deniedStore(store, ip, t) == store

\* SOSRateLimiter.check: the storage afterwards and the result returned.
\* The field entry records the local entry of the call: << >> when
\* storage.get found nothing, <<e>> when it returned e.
check(store, ip, t) ==
  IF ip \notin DOMAIN store
  THEN [store |-> With(store, ip, [count |-> 1, last_attempt |-> t]),
        allowed |-> TRUE, retry_after |-> 0, entry |-> << >>]
  ELSE
    LET entry == store[ip] IN
    IF cooledDown(entry, t)
    THEN [store |-> With(store, ip, [count |-> 1, last_attempt |-> t]),
          allowed |-> TRUE, retry_after |-> 0, entry |-> <<entry>>]
    ELSE
      LET required == Sec(requiredDelay(entry.count))
          elapsed == t - entry.last_attempt
      IN  IF accepted(elapsed, required)
          THEN [store |-> With(store, ip, [count |-> entry.count + 1,
                                            last_attempt |-> t]),
                allowed |-> TRUE, retry_after |-> 0, entry |-> <<entry>>]
          ELSE [store |-> deniedStore(store, ip, t),
                allowed |-> FALSE, retry_after |-> Ceil(required - elapsed),
                entry |-> <<entry>>]

\* A reset that clears the entry in place.
resetInPlace(store, ip) == With(store, ip, [count |-> 0, last_attempt |-> 0])

\* SOSRateLimiter.reset.
reset(store, ip) == Without(store, ip)

\* SOSRateLimiter.fetch, POST /check.
RateCheck(ip) ==
  LET r == check(rate, ip, now) IN
  /\ rate' = r.store
  /\ resp' = [op |-> "check", ip |-> ip, allowed |-> r.allowed,
              retry_after |-> r.retry_after, entry |-> r.entry]
  /\ UNCHANGED <<now, rooms, nsent, routerVars, caller, hints, calls>>

\* SOSRateLimiter.fetch, POST /reset.
RateReset(ip) ==
  /\ rate' = reset(rate, ip)
  /\ resp' = [op |-> "reset", ip |-> ip, status |-> "ok"]
  /\ UNCHANGED <<now, rooms, nsent, routerVars, caller, hints, calls>>

----------------------------------------------------------------------------
(* SOSRoom.  A request body or query is a record data with the fields      *)
(* room_hash, nickname, member_id, sender, content (strings, "" when the   *)
(* field is absent or the body does not parse) and since (ticks).          *)
(*                                                                         *)
(* A handler is one step: an entity executes its requests one at a time,   *)
(* and every nowSeconds() of one request reads the same instant.           *)
(* randomId(8) is any element of MemberIds, so that two members may draw   *)
(* the same id; randomId(12) is the number of the message, nsent + 1, so   *)
(* that message ids tell the messages apart.                               *)

H1 == "aaaaaaaaaaaaaaaa"
H2 == "bbbbbbbbbbbbbbbb"

MemberIds == {"m1", "m2"}

Data(room_hash, nickname, member_id, sender, content, since) ==
  [room_hash |-> room_hash, nickname |-> nickname, member_id |-> member_id,
   sender |-> sender, content |-> content, since |-> since]

NoData == Data("", "", "", "", "", 0)

\* jsonResponse({ error }, status).
Error(op, status, error) == [op |-> op, status |-> status, error |-> error]

\* Object.values(room.members): the nicknames with their multiplicities.
Values(members) ==
  [n \in {members[x] : x \in DOMAIN members} |->
     Cardinality({x \in DOMAIN members : members[x] = n})]

\* A record that never expires.
expiredNever(room, t) == FALSE

\* Line 213: the record is past its expiry at time t.
expired(room, t) == t > room.expires_at

\* SOSRoom.getRoom on the entity with key k: the storage afterwards and
\* whether a record was returned (it is store[k] then).
getRoom(store, k, t) ==
  IF k \notin DOMAIN store THEN [store |-> store, found |-> FALSE]
  ELSE IF expired(store[k], t)
       THEN [store |-> Without(store, k), found |-> FALSE]
       ELSE [store |-> store, found |-> TRUE]

\* Lines 260-261 (and 288-289, 323-324, 340-341, 357-358).
lookup(store, k, roomHash, t) ==
  LET g == getRoom(store, k, t) IN
  [store |-> g.store,
   found |-> g.found /\ g.store[k].room_hash = roomHash]

\* A create that does not look for an existing record and keeps what the
\* key holds.
handleCreateOver(store, k, roomHash, data, t, memberId) ==
  IF data.room_hash # roomHash
  THEN [store |-> store, resp |-> Error("create", 400, "invalid_room_hash")]
  ELSE
    LET room == [room_hash |-> roomHash, mode |-> "fixed",
                 created_at |-> t, expires_at |-> t + Sec(ROOM_TTL_SECONDS),
                 members |-> With(<< >>, memberId, "creator"),
                 messages |-> IF k \in DOMAIN store THEN store[k].messages
                              ELSE << >>]
    IN  [store |-> With(store, k, room),
         resp |-> [op |-> "create", status |-> 200, error |-> "",
                   room_hash |-> room.room_hash, mode |-> room.mode,
                   created_at |-> room.created_at,
                   expires_at |-> room.expires_at,
                   member_id |-> memberId,
                   members |-> Values(room.members)]]

\* SOSRoom.handleCreate; memberId is the value of randomId(8).
handleCreate(store, k, roomHash, data, t, memberId) ==
  LET g == getRoom(store, k, t) IN
  IF g.found THEN [store |-> g.store, resp |-> Error("create", 409, "room_exists")]
  ELSE IF data.room_hash # roomHash
  THEN [store |-> g.store, resp |-> Error("create", 400, "invalid_room_hash")]
  ELSE
    LET room == [room_hash |-> roomHash, mode |-> "fixed",
                 created_at |-> t, expires_at |-> t + Sec(ROOM_TTL_SECONDS),
                 members |-> With(<< >>, memberId, "creator"),
                 messages |-> << >>]
    IN  [store |-> With(g.store, k, room),
         resp |-> [op |-> "create", status |-> 200, error |-> "",
                   room_hash |-> room.room_hash, mode |-> room.mode,
                   created_at |-> room.created_at,
                   expires_at |-> room.expires_at,
                   member_id |-> memberId,
                   members |-> Values(room.members)]]

\* Line 266: (data?.nickname || 'anon').toString().slice(0, 20).
nicknameOf(data) ==
  LET n == IF data.nickname = "" THEN "anon" ELSE data.nickname
  IN  SubSeq(n, 1, Min(Len(n), NICKNAME_LENGTH))

\* A join that renews the lifetime of the room.
handleJoinRenew(store, k, roomHash, data, t, memberId) ==
  LET g == lookup(store, k, roomHash, t) IN
  IF ~g.found THEN [store |-> g.store, resp |-> Error("join", 404, "room_not_found")]
  ELSE
    LET old  == g.store[k]
        room == [old EXCEPT !.members = With(old.members, memberId, nicknameOf(data)),
                            !.expires_at = t + Sec(ROOM_TTL_SECONDS)]
        n    == Len(room.messages)
    IN  [store |-> With(g.store, k, room),
         resp |-> [op |-> "join", status |-> 200, error |-> "",
                   room_hash |-> room.room_hash, mode |-> room.mode,
                   created_at |-> room.created_at,
                   expires_at |-> room.expires_at,
                   member_id |-> memberId,
                   members |-> Values(room.members),
                   message_count |-> n,
                   last_message_ts |->
                     IF n > 0 THEN room.messages[n].timestamp ELSE 0]]

\* SOSRoom.handleJoin; memberId is the value of randomId(8).
handleJoin(store, k, roomHash, data, t, memberId) ==
  LET g == lookup(store, k, roomHash, t) IN
  IF ~g.found THEN [store |-> g.store, resp |-> Error("join", 404, "room_not_found")]
  ELSE
    LET old  == g.store[k]
        room == [old EXCEPT !.members = With(old.members, memberId, nicknameOf(data))]
        n    == Len(room.messages)
    IN  [store |-> With(g.store, k, room),
         resp |-> [op |-> "join", status |-> 200, error |-> "",
                   room_hash |-> room.room_hash, mode |-> room.mode,
                   created_at |-> room.created_at,
                   expires_at |-> room.expires_at,
                   member_id |-> memberId,
                   members |-> Values(room.members),
                   message_count |-> n,
                   last_message_ts |->
                     IF n > 0 THEN room.messages[n].timestamp ELSE 0]]

\* A property name that every object inherits from Object.prototype:
\* members[name] is then a native function, also when members has no such
\* key of its own (randomId(8) never draws this name).
Inherited == {"toString"}

\* String(members[name]) for an inherited name.
nativeCode(name) == "function " \o name \o "() { [native code] }"

\* Lines 301 and 348: memberId && room.members[memberId].  The nicknames
\* stored are never empty, so the value of a key of members is truthy.
known(members, memberId) ==
  memberId # "" /\ (memberId \in DOMAIN members \/ memberId \in Inherited)

\* Lines 298-303 and 307: the sender recorded for a message.
senderOf(room, data) ==
  IF known(room.members, data.member_id)
  THEN IF data.member_id \in DOMAIN room.members
       THEN room.members[data.member_id]
       ELSE nativeCode(data.member_id)
  ELSE IF data.sender # "" THEN data.sender ELSE "anon"

\* push(msg) without the trimming.
pushUnbounded(messages, msg) == Append(messages, msg)

\* push(msg), then slice(0, MAX_MESSAGES): the newest entries are dropped.
pushKeepOldest(messages, msg) ==
  LET all == Append(messages, msg) IN
  IF Len(all) > MAX_MESSAGES THEN SubSeq(all, 1, MAX_MESSAGES) ELSE all

\* Lines 312-315: push(msg), then slice(-MAX_MESSAGES) when over the bound.
push(messages, msg) ==
  LET all == Append(messages, msg) IN
  IF Len(all) > MAX_MESSAGES
  THEN SubSeq(all, Len(all) - MAX_MESSAGES + 1, Len(all))
  ELSE all

\* SOSRoom.handleSend; id is the value of randomId(12).
handleSend(store, k, roomHash, data, t, id) ==
  LET g == lookup(store, k, roomHash, t) IN
  IF ~g.found THEN [store |-> g.store, resp |-> Error("send", 404, "room_not_found")]
  ELSE IF data.content = ""
  THEN [store |-> g.store, resp |-> Error("send", 400, "missing_content")]
  ELSE
    LET old  == g.store[k]
        msg  == [id |-> id, sender |-> senderOf(old, data),
                 content |-> data.content, timestamp |-> t]
        room == [old EXCEPT !.messages = push(old.messages, msg)]
    IN  [store |-> With(g.store, k, room),
         resp |-> [op |-> "send", status |-> 200, error |-> "",
                   id |-> msg.id, timestamp |-> msg.timestamp]]

\* A filter that also lets the messages of the instant since through.
filterSinceInclusive(messages, since) ==
  SelectSeq(messages, LAMBDA msg : msg.timestamp >= since)

\* Line 329: room.messages.filter((msg) => msg.timestamp > since).
filterSince(messages, since) ==
  SelectSeq(messages, LAMBDA msg : msg.timestamp > since)

\* SOSRoom.handlePoll.
handlePoll(store, k, roomHash, data, t) ==
  LET g == lookup(store, k, roomHash, t) IN
  IF ~g.found THEN [store |-> g.store, resp |-> Error("poll", 404, "room_not_found")]
  ELSE
    LET room == g.store[k] IN
    [store |-> g.store,
     resp |-> [op |-> "poll", status |-> 200, error |-> "",
               messages |-> filterSince(room.messages, data.since),
               members |-> Values(room.members),
               expires_at |-> room.expires_at,
               message_count |-> Len(room.messages)]]

\* A leave that reports a member it does not find.
handleLeaveStrict(store, k, roomHash, data, t) ==
  LET g == lookup(store, k, roomHash, t) IN
  IF ~g.found THEN [store |-> g.store, resp |-> Error("leave", 404, "room_not_found")]
  ELSE IF data.member_id = "" \/ data.member_id \notin DOMAIN g.store[k].members
  THEN [store |-> g.store, resp |-> Error("leave", 404, "member_not_found")]
  ELSE [store |-> With(g.store, k,
                       [g.store[k] EXCEPT
                          !.members = Without(g.store[k].members, data.member_id)]),
        resp |-> [op |-> "leave", status |-> 200, error |-> "", result |-> "left"]]

\* SOSRoom.handleLeave.
handleLeave(store, k, roomHash, data, t) ==
  LET g == lookup(store, k, roomHash, t) IN
  IF ~g.found THEN [store |-> g.store, resp |-> Error("leave", 404, "room_not_found")]
  ELSE
    LET old == g.store[k] IN
    [store |-> IF known(old.members, data.member_id)
               THEN With(g.store, k,
                         [old EXCEPT !.members = Without(old.members, data.member_id)])
               ELSE g.store,
     resp |-> [op |-> "leave", status |-> 200, error |-> "", result |-> "left"]]

\* SOSRoom.handleInfo.
handleInfo(store, k, roomHash, t) ==
  LET g == lookup(store, k, roomHash, t) IN
  IF ~g.found THEN [store |-> g.store, resp |-> Error("info", 404, "room_not_found")]
  ELSE
    LET room == g.store[k] IN
    [store |-> g.store,
     resp |-> [op |-> "info", status |-> 200, error |-> "",
               room_hash |-> room.room_hash, mode |-> room.mode,
               created_at |-> room.created_at,
               expires_at |-> room.expires_at,
               members |-> Values(room.members),
               message_count |-> Len(room.messages),
               time_remaining |-> Max(0, Floor(room.expires_at - t))]]

Actions == {"create", "join", "send", "poll", "leave", "info"}

\* The requests a room entity may hold between getRoom and readJson.
Calls == {"c1", "c2"}

\* The HTTP method SOSRoom.fetch requires for an action.
methodOf(action) == IF action \in {"poll", "info"} THEN "GET" ELSE "POST"

\* SOSRoom.fetch on the entity with key k, for the path
\* /room/{roomHash}/{action}; rnd is the value randomId returns.
roomFetch(store, k, method, roomHash, action, data, t, mid, id) ==
  IF roomHash = "" THEN [store |-> store, resp |-> Error("none", 404, "not_found")]
  ELSE IF action = "create" /\ method = "POST"
  THEN handleCreate(store, k, roomHash, data, t, mid)
  ELSE IF action = "join" /\ method = "POST"
  THEN handleJoin(store, k, roomHash, data, t, mid)
  ELSE IF action = "send" /\ method = "POST"
  THEN handleSend(store, k, roomHash, data, t, id)
  ELSE IF action = "poll" /\ method = "GET"
  THEN handlePoll(store, k, roomHash, data, t)
  ELSE IF action = "leave" /\ method = "POST"
  THEN handleLeave(store, k, roomHash, data, t)
  ELSE IF action = "info" /\ method = "GET"
  THEN handleInfo(store, k, roomHash, t)
  ELSE [store |-> store, resp |-> Error("none", 404, "not_found")]

\* One request executed by the room entity with key k.  The step records
\* the entity and the path in resp next to the response.
RoomOp(k, method, roomHash, action, data, mid) ==
  LET r == roomFetch(rooms, k, method, roomHash, action, data, now, mid, nsent + 1) IN
  /\ rooms' = r.store
  /\ resp' = [op |-> "room", key |-> k, hash |-> roomHash, action |-> action,
              body |-> r.resp]
  /\ nsent' = IF r.resp.op = "send" /\ r.resp.status = 200 THEN nsent + 1 ELSE nsent
  /\ UNCHANGED <<now, rate, routerVars, caller, hints, calls>>

Create(k, roomHash, room_hash, mid) ==
  RoomOp(k, "POST", roomHash, "create", Data(room_hash, "", "", "", "", 0), mid)

Join(k, roomHash, nickname, mid) ==
  RoomOp(k, "POST", roomHash, "join", Data("", nickname, "", "", "", 0), mid)

Send(k, roomHash, member_id, sender, content) ==
  RoomOp(k, "POST", roomHash, "send", Data("", "", member_id, sender, content, 0), "")

Poll(k, roomHash, since) ==
  RoomOp(k, "GET", roomHash, "poll", Data("", "", "", "", "", since), "")

Leave(k, roomHash, member_id) ==
  RoomOp(k, "POST", roomHash, "leave", Data("", "", member_id, "", "", 0), "")

Info(k, roomHash) ==
  RoomOp(k, "GET", roomHash, "info", NoData, "")

----------------------------------------------------------------------------
(* The router: export default { fetch }.  A client request is answered in  *)
(* one step unless the router awaits two entities for it: a POST /room     *)
(* first awaits the rate limiter and then the room entity, and other       *)
(* requests run in between.  The routes that touch no entity (OPTIONS,     *)
(* /health, /) are left out.                                               *)

Slots == {"r1", "r2"}

MaxPending == 1

BadHash == "tooshort"

\* Lines 118 and 141: the room hash is a string of 16 characters.
validHash(h) == Len(h) = HASH_LENGTH

\* Response.ok.
ok(response) == response.status >= 200 /\ response.status <= 299

\* The answer of the router to the client: the status and the error code of
\* the payload it passes on (op names the handler that produced it), with
\* the request it answers, the entities contacted for it and the result of
\* its checkRateLimit ("none" when it made no such call).
Http(route, ip, hash, action, body, contacted, limit) ==
  [op |-> "http", route |-> route, ip |-> ip, hash |-> hash,
   action |-> action,
   body |-> [op |-> body.op, status |-> body.status, error |-> body.error],
   contacted |-> contacted, limit |-> limit]

\* Lines 110-115: POST /room from ip with body { room_hash }, up to the
\* answer of checkRateLimit.  The step records in resp whether the check
\* found no entry (fresh) and whether it is the first check of ip after a
\* successful join of ip (afterJoin).  The rate limiter always answers
\* /check with status 200, so the branch of checkRateLimit for a response
\* that is not ok (lines 79-81) is not taken.
RouterCheck(s, ip, room_hash) ==
  LET r == check(rate, ip, now) IN
  /\ reqs[s].pc = "idle"
  /\ rate' = r.store
  /\ joined' = joined \ {ip}
  /\ reqs' = IF r.allowed
             THEN [reqs EXCEPT ![s] = [pc |-> "checked", ip |-> ip,
                                       room_hash |-> room_hash]]
             ELSE reqs
  /\ resp' = [op |-> "checkRateLimit", ip |-> ip, hash |-> room_hash,
              allowed |-> r.allowed, fresh |-> r.entry = << >>,
              afterJoin |-> ip \in joined,
              body |-> IF r.allowed THEN Error("none", 0, "")
                       ELSE Error("none", 429, "rate_limited")]
  /\ UNCHANGED <<now, rooms, nsent, resets, caller, hints, calls>>

\* Lines 117-134: the rest of POST /room; mid is the value of randomId(8).
RouterCreate(s, mid) ==
  /\ reqs[s].pc = "checked"
  /\ LET q == reqs[s] IN
     IF ~validHash(q.room_hash)
     THEN /\ rooms' = rooms
          /\ resp' = Http("create", q.ip, q.room_hash, "",
                          Error("none", 400, "invalid_room_hash"),
                          {"rate"}, "allowed")
     ELSE LET r == roomFetch(rooms, q.room_hash, "POST", q.room_hash, "create",
                             Data(q.room_hash, "", "", "", "", 0), now, mid,
                             nsent + 1)
          IN  /\ rooms' = r.store
              /\ resp' = Http("create", q.ip, q.room_hash, "", r.resp,
                              {"rate", "room"}, "allowed")
  /\ reqs' = [reqs EXCEPT ![s] = Idle]
  /\ UNCHANGED <<now, rate, nsent, resets, joined, caller, hints, calls>>

\* A reward for every request the room entity answers with success.
rewardsAnyOk(action, response) == ok(response)

\* Line 149: parts[2] === 'join' && response.ok.
rewards(action, response) == action = "join" /\ ok(response)

\* Lines 137-158: a request for /room/{hash}/{action} from ip; a
\* successful join starts resetRateLimit(ip) in the background.
RouterForward(ip, method, hash, action, data, mid) ==
  IF ~validHash(hash)
  THEN /\ resp' = Http("forward", ip, hash, action,
                       Error("none", 400, "invalid_room_hash"), {}, "none")
       /\ UNCHANGED <<now, rate, rooms, nsent, routerVars, caller, hints, calls>>
  ELSE
    LET r == roomFetch(rooms, hash, method, hash, action, data, now, mid,
                       nsent + 1)
        rewarded == rewards(action, r.resp)
    IN  /\ rewarded => resets[ip] < MaxPending
        /\ rooms' = r.store
        /\ nsent' = IF r.resp.op = "send" /\ r.resp.status = 200
                    THEN nsent + 1 ELSE nsent
        /\ resets' = IF rewarded THEN [resets EXCEPT ![ip] = @ + 1] ELSE resets
        /\ joined' = IF rewarded THEN joined \cup {ip} ELSE joined
        /\ resp' = Http("forward", ip, hash, action, r.resp, {"room"}, "none")
        /\ UNCHANGED <<now, rate, reqs, caller, hints, calls>>

\* Lines 85-92: a resetRateLimit(ip) started by the router reaches the rate
\* limiter entity.
RouterReset(ip) ==
  /\ resets[ip] > 0
  /\ resets' = [resets EXCEPT ![ip] = @ - 1]
  /\ rate' = reset(rate, ip)
  /\ resp' = NoResp
  /\ UNCHANGED <<now, rooms, nsent, reqs, joined, caller, hints, calls>>

\* nowSeconds() moves on to the instant t.
Advance(t) ==
  /\ t > now
  /\ now' = t
  /\ resp' = NoResp
  /\ UNCHANGED <<rate, rooms, nsent, routerVars, caller, hints, calls>>

\* Sum of the first k escalation delays: the earliest instant of the k-th
\* accepted attempt of an address that first attempts at 0.
RECURSIVE SumDelays(_)
SumDelays(k) == IF k = 0 THEN 0
                ELSE SumDelays(k - 1) + RATE_LIMIT_DELAYS_SECONDS[k]

\* The instants the clock takes in SpecRate: around every escalation
\* threshold and around the cooldown that follows it.
RateInstants ==
  LET marks == {SumDelays(k) : k \in 1..Len(RATE_LIMIT_DELAYS_SECONDS)}
  IN  ({Sec(m) + o : m \in marks, o \in {-1, 0, 1}} \cap Nat)
        \cup {Sec(m + RATE_LIMIT_COOLDOWN_SECONDS) + o : m \in marks, o \in {0, 1}}

InitState ==
  /\ now = 0
  /\ rate = << >>
  /\ rooms = << >>
  /\ resp = NoResp
  /\ nsent = 0
  /\ reqs = [s \in Slots |-> Idle]
  /\ resets = [ip \in Addresses |-> 0]
  /\ joined = {}
  /\ caller = NoCaller
  /\ hints = [ip \in Addresses |-> {}]
  /\ calls = [c \in Calls |-> Idle]

----------------------------------------------------------------------------
(* The rate limiter entity on its own.                                     *)

InitRate == InitState

NextRate ==
  \/ \E ip \in Addresses : RateCheck(ip)
  \/ \E ip \in Addresses : RateReset(ip)
  \/ \E t \in RateInstants : Advance(t)

SpecRate == InitRate /\ [][NextRate]_vars

----------------------------------------------------------------------------
(* The rate limiter entity and clients that keep the wait hints they were  *)
(* given: hints[ip] holds the instant and the retry_after of every denial  *)
(* of ip since the last allowed check of ip.                               *)

\* The instants the clock takes in SpecHint: around the escalation
\* thresholds, and after the cooldown that follows the first.
HintInstants ==
  LET marks == {SumDelays(k) : k \in 1..Len(RATE_LIMIT_DELAYS_SECONDS)}
  IN  ({Sec(m) + o : m \in marks, o \in {-1, 0, 1}} \cap Nat)
        \cup {Sec(RATE_LIMIT_COOLDOWN_SECONDS) + 1}

\* The addresses whose clients keep the hints.
HintClients == {"10.0.0.1"}

\* SOSRateLimiter.fetch, POST /check, from a client that keeps the hint;
\* the step records in resp the hints the client came with.
HintedCheck(ip) ==
  LET r == check(rate, ip, now) IN
  /\ rate' = r.store
  /\ resp' = [op |-> "check", ip |-> ip, allowed |-> r.allowed,
              retry_after |-> r.retry_after, entry |-> r.entry,
              hinted |-> hints[ip]]
  /\ hints' = [hints EXCEPT ![ip] =
                 IF r.allowed THEN {}
                 ELSE @ \cup {[at |-> now, retry_after |-> r.retry_after]}]
  /\ UNCHANGED <<now, rooms, nsent, routerVars, caller, calls>>

InitHint == InitState

NextHint ==
  \/ \E ip \in HintClients : HintedCheck(ip)
  \/ \E ip \in Addresses \ HintClients : RateCheck(ip)
  \/ \E ip \in Addresses : RateReset(ip)
  \/ \E t \in HintInstants : Advance(t)

SpecHint == InitHint /\ [][NextHint]_vars

----------------------------------------------------------------------------
(* One room entity on its own, over its whole life cycle.                  *)

MaxSends == 2

LongNickname == "abcdefghijklmnopqrstuvwxyz"

\* The instants the clock takes in SpecRoom: the creation of a room at 0 or
\* one tick later, its last instant and the first instant after it.
RoomInstants ==
  {0, 1, Sec(ROOM_TTL_SECONDS), Sec(ROOM_TTL_SECONDS) + 1}

\* The member_id and sender of the send requests of SpecRoom.
SendInputs == {<<"", "">>, <<"", "eve">>, <<"m1", "eve">>}

\* The member_id of the leave requests of SpecRoom.
LeaveInputs == MemberIds \cup {"", "toString"}

InitRoom == InitState

\* A send to the room, while fewer than MaxSends messages were accepted.
RoomSend(member_id, sender, content) ==
  /\ nsent < MaxSends
  /\ Send(H1, H1, member_id, sender, content)

NextRoom ==
  \/ \E rh \in {"", H1, H2}, mid \in MemberIds : Create(H1, H1, rh, mid)
  \/ \E n \in {"", LongNickname}, mid \in MemberIds : Join(H1, H1, n, mid)
  \/ \E p \in SendInputs, c \in {"", "hi"} : RoomSend(p[1], p[2], c)
  \/ \E since \in {0, 1} : Poll(H1, H1, since)
  \/ \E m \in LeaveInputs : Leave(H1, H1, m)
  \/ \E h \in {H1, H2} : Info(H1, h)
  \/ \E t \in RoomInstants : Advance(t)

SpecRoom == InitRoom /\ [][NextRoom]_vars

----------------------------------------------------------------------------
(* One room entity flooded with messages.                                  *)

FloodSends == 502

InitFlood == InitState

\* A send to the room, while fewer than FloodSends messages were accepted.
FloodSend(content) ==
  /\ nsent < FloodSends
  /\ Send(H1, H1, "", "", content)

NextFlood ==
  \/ \E mid \in MemberIds : Create(H1, H1, H1, mid)
  \/ \E mid \in MemberIds : Join(H1, H1, "", mid)
  \/ \E c \in {"", "hi"} : FloodSend(c)
  \/ Poll(H1, H1, 0)
  \/ \E m \in MemberIds : Leave(H1, H1, m)
  \/ Info(H1, H1)

SpecFlood == InitFlood /\ [][NextFlood]_vars

----------------------------------------------------------------------------
(* The router with both entities behind it, within one instant of the      *)
(* clock: the requests of SpecRouter overlap, and the passing of time is   *)
(* covered by SpecRate and SpecRoom.                                       *)

RouterSends == 1

\* The payload the clients of SpecRouter send with an action.
RouterData(action) ==
  IF action = "create" THEN Data(H1, "", "", "", "", 0)
  ELSE IF action = "send" THEN Data("", "", "", "", "hi", 0)
  ELSE NoData

InitRouter == InitState

\* A request for /room/{hash}/{action} from ip, sends included while fewer
\* than RouterSends messages were accepted.
RouterRequest(ip, hash, action) ==
  /\ action = "send" => nsent < RouterSends
  /\ RouterForward(ip, methodOf(action), hash, action, RouterData(action), "m2")

NextRouter ==
  \/ \E s \in Slots, ip \in Addresses, h \in {H1, BadHash} :
       RouterCheck(s, ip, h)
  \/ \E s \in Slots : RouterCreate(s, "m1")
  \/ \E ip \in Addresses, h \in {H1, BadHash}, a \in Actions \cup {""} :
       RouterRequest(ip, h, a)
  \/ \E ip \in Addresses : RouterReset(ip)

SpecRouter == InitRouter /\ [][NextRouter]_vars

----------------------------------------------------------------------------
(* The router as the rate limiter sees it: the requests for a creation     *)
(* with a valid or an invalid hash, and the requests forwarded to a room.  *)

InitReward == InitState

NextReward ==
  \/ \E s \in Slots, ip \in Addresses, h \in {H1, BadHash} :
       RouterCheck(s, ip, h)
  \/ \E s \in Slots : RouterCreate(s, "m1")
  \/ \E ip \in Addresses, a \in Actions : RouterRequest(ip, H1, a)
  \/ \E ip \in Addresses : RouterReset(ip)

SpecReward == InitReward /\ [][NextReward]_vars

----------------------------------------------------------------------------
(* One room entity and its polling clients, well inside the life of the    *)
(* room.  nowSeconds() counts from the epoch and is positive: the clock    *)
(* starts one tick after the instant 0 that a poll without since names.    *)
(* Besides the polls with an arbitrary since there is one caller that      *)
(* follows the polling protocol: it joins or polls, and polls again with   *)
(* the largest timestamp it has seen.                                      *)

PollSends == 3

PollInstants == {2, 3}

PollSinces == {0, 1, 2, 3}

\* The largest timestamp among since and the timestamps of messages.
lastSeen(since, messages) ==
  LET ts == {since} \cup {messages[i].timestamp : i \in 1..Len(messages)}
  IN  CHOOSE t \in ts : \A u \in ts : u <= t

\* A join of the caller: it keeps last_message_ts of the answer to poll with.
CallerJoin(k, roomHash, mid) ==
  LET r == roomFetch(rooms, k, "POST", roomHash, "join", NoData, now, mid,
                     nsent + 1)
  IN  /\ rooms' = r.store
      /\ resp' = [op |-> "caller", key |-> k, hash |-> roomHash,
                  action |-> "join", since |-> 0, body |-> r.resp]
      /\ caller' = IF r.resp.status = 200
                   THEN [since |-> r.resp.last_message_ts, got |-> {},
                         mark |-> nsent]
                   ELSE caller
      /\ UNCHANGED <<now, rate, nsent, routerVars, hints, calls>>

\* A poll of the caller with the timestamp it keeps; it then keeps the
\* largest timestamp it has seen.
CallerPoll(k, roomHash) ==
  LET r == roomFetch(rooms, k, "GET", roomHash, "poll",
                     Data("", "", "", "", "", caller.since), now, "",
                     nsent + 1)
  IN  /\ rooms' = r.store
      /\ resp' = [op |-> "caller", key |-> k, hash |-> roomHash,
                  action |-> "poll", since |-> caller.since, body |-> r.resp]
      /\ caller' = IF r.resp.status = 200
                   THEN [since |-> lastSeen(caller.since, r.resp.messages),
                         got |-> caller.got \cup
                                   {r.resp.messages[i].id :
                                      i \in 1..Len(r.resp.messages)},
                         mark |-> nsent]
                   ELSE caller
      /\ UNCHANGED <<now, rate, nsent, routerVars, hints, calls>>

\* A send to the room, while fewer than PollSends messages were accepted.
PollSend(content) ==
  /\ nsent < PollSends
  /\ Send(H1, H1, "", "", content)

InitPoll ==
  /\ now = 1
  /\ rate = << >>
  /\ rooms = << >>
  /\ resp = NoResp
  /\ nsent = 0
  /\ reqs = [s \in Slots |-> Idle]
  /\ resets = [ip \in Addresses |-> 0]
  /\ joined = {}
  /\ caller = NoCaller
  /\ hints = [ip \in Addresses |-> {}]
  /\ calls = [c \in Calls |-> Idle]

NextPoll ==
  \/ \E mid \in MemberIds : Create(H1, H1, H1, mid)
  \/ \E c \in {"", "hi"} : PollSend(c)
  \/ \E since \in PollSinces : Poll(H1, H1, since)
  \/ \E mid \in MemberIds : CallerJoin(H1, H1, mid)
  \/ CallerPoll(H1, H1)
  \/ \E t \in PollInstants : Advance(t)

SpecPoll == InitPoll /\ [][NextPoll]_vars

----------------------------------------------------------------------------
(* One room entity, its members and the senders of its messages, within    *)
(* one instant of the clock.                                               *)

MemberSends == 2

\* The member_id, sender and content of the send requests of SpecMembers.
MemberSendInputs ==
  (MemberIds \cup {"", "toString"}) \X {"", "eve"} \X {"", "hi"}

InitMembers == InitState

\* A send to the room, while fewer than MemberSends messages were accepted.
MemberSend(member_id, sender, content) ==
  /\ nsent < MemberSends
  /\ Send(H1, H1, member_id, sender, content)

NextMembers ==
  \/ \E mid \in MemberIds : Create(H1, H1, H1, mid)
  \/ \E n \in {"", "bob"}, mid \in MemberIds : Join(H1, H1, n, mid)
  \/ \E p \in MemberSendInputs : MemberSend(p[1], p[2], p[3])
  \/ \E m \in LeaveInputs : Leave(H1, H1, m)

SpecMembers == InitMembers /\ [][NextMembers]_vars

----------------------------------------------------------------------------
(* One room entity whose requests overlap.  A handler that takes a body    *)
(* reads the record (await getRoom), then awaits the body of the request   *)
(* (await readJson), then changes the record it has read and stores it     *)
(* (await saveRoom).  The entity runs one piece of code at a time, but     *)
(* while a request waits for its body it runs the requests that have       *)
(* arrived meanwhile.  The clock stands still, and member_id is a member   *)
(* id or absent.                                                           *)

OverlapSends == 2

\* The payload the clients of SpecOverlap send with an action.
OverlapData(action, member_id) ==
  IF action = "create" THEN Data(H1, "", "", "", "", 0)
  ELSE IF action = "send" THEN Data("", "", "", "", "hi", 0)
  ELSE IF action = "leave" THEN Data("", "", member_id, "", "", 0)
  ELSE NoData

\* The storage a handler holds in its local variable room: the record it
\* has read (<<room>>), or nothing (<< >>).
localStore(k, read) == IF read = << >> THEN << >> ELSE With(<< >>, k, read[1])

\* handleCreate, handleJoin, handleSend, handleLeave up to await readJson:
\* the handler answers at once when it returns before that line, and
\* otherwise waits for the body with the record it has read.
Begin(c, k, roomHash, action, data) ==
  LET g == IF action = "create" THEN getRoom(rooms, k, now)
           ELSE lookup(rooms, k, roomHash, now)
      early == IF action = "create" THEN g.found ELSE ~g.found
  IN  /\ calls[c].pc = "idle"
      /\ action = "send" => nsent < OverlapSends
      /\ rooms' = g.store
      /\ IF early
         THEN /\ resp' = [op |-> "room", key |-> k, hash |-> roomHash,
                          action |-> action, data |-> data,
                          body |-> roomFetch(rooms, k, "POST", roomHash, action,
                                            data, now, "", nsent + 1).resp]
              /\ calls' = calls
         ELSE /\ resp' = NoResp
              /\ calls' = [calls EXCEPT ![c] =
                             [pc |-> "body", key |-> k, hash |-> roomHash,
                              action |-> action, data |-> data,
                              read |-> IF g.found THEN <<g.store[k]>>
                                       ELSE << >>]]
      /\ UNCHANGED <<now, rate, nsent, routerVars, caller, hints>>

\* The same handlers from await readJson on: the handler works on the
\* record it has read and stores the result, unless it changed nothing.
Finish(c, mid) ==
  LET q     == calls[c]
      local == localStore(q.key, q.read)
      r     == roomFetch(local, q.key, "POST", q.hash, q.action, q.data, now,
                         mid, nsent + 1)
  IN  /\ q.pc = "body"
      /\ rooms' = IF r.store = local THEN rooms
                  ELSE With(rooms, q.key, r.store[q.key])
      /\ nsent' = IF r.resp.op = "send" /\ r.resp.status = 200
                  THEN nsent + 1 ELSE nsent
      /\ resp' = [op |-> "room", key |-> q.key, hash |-> q.hash,
                  action |-> q.action, data |-> q.data, body |-> r.resp]
      /\ calls' = [calls EXCEPT ![c] = Idle]
      /\ UNCHANGED <<now, rate, routerVars, caller, hints>>

InitOverlap == InitState

NextOverlap ==
  \/ \E c \in Calls, a \in {"create", "join", "send", "leave"},
        m \in MemberIds :
       Begin(c, H1, H1, a, OverlapData(a, m))
  \/ \E c \in Calls, mid \in MemberIds : Finish(c, mid)
  \/ Poll(H1, H1, 0)
  \/ Info(H1, H1)

SpecOverlap == InitOverlap /\ [][NextOverlap]_vars

----------------------------------------------------------------------------
(* Room expiry.                                                            *)

RoomActionsAfterCreate == {"join", "send", "poll", "leave", "info"}

\* The room of entity k was created more than ROOM_TTL_SECONDS ago.
PastTTL(k) ==
  /\ k \in DOMAIN rooms
  /\ now > rooms[k].created_at + Sec(3600)

\* C1: a join, send, poll, leave or info executed after created_at + 3600 s
\* answers room_not_found (404), as it does when no record was ever stored,
\* and leaves no record behind; a record comes into existence only by a
\* successful create.
C1_ExpiredRoomIsAbsent ==
  [][\A k \in {H1} :
       /\ ( /\ resp'.op = "room" /\ resp'.key = k
            /\ resp'.action \in RoomActionsAfterCreate
            /\ (k \notin DOMAIN rooms \/ PastTTL(k)) )
          => /\ resp'.body = Error(resp'.action, 404, "room_not_found")
             /\ k \notin DOMAIN rooms'
       /\ (k \notin DOMAIN rooms /\ k \in DOMAIN rooms')
          => /\ resp'.op = "room" /\ resp'.action = "create"
             /\ resp'.body.status = 200
    ]_vars

\* A poll has answered room_not_found for a room that held a message and
\* has since expired and been deleted.
C1_Witness ==
  /\ resp.op = "room" /\ resp.action = "poll"
  /\ resp.body = Error("poll", 404, "room_not_found")
  /\ nsent > 0
  /\ now > Sec(3600)
  /\ H1 \notin DOMAIN rooms

----------------------------------------------------------------------------
(* Message bound.                                                          *)

\* C3: a stored room never holds more than 500 messages.
C3_MessageBound ==
  \A k \in DOMAIN rooms : Len(rooms[k].messages) <= 500

\* More than 500 messages were sent to the room, which holds 500.
C3_Witness ==
  /\ H1 \in DOMAIN rooms
  /\ nsent > 500
  /\ Len(rooms[H1].messages) = 500

\* The last n elements of s, all of s when it is shorter.
LastN(s, n) ==
  LET m == Min(n, Len(s)) IN [i \in 1..m |-> s[Len(s) - m + i]]

\* C4: a successful send leaves the last 500 entries of the previous
\* sequence followed by the new message, the new message last; 501 sends to
\* a fresh room leave the messages 2..501 in order.
C4_SendKeepsMostRecent ==
  /\ [][( /\ resp'.op = "room" /\ resp'.action = "send"
          /\ resp'.body.status = 200 /\ nsent' = nsent + 1 )
        => LET k   == resp'.key
               old == rooms[k].messages
               new == rooms'[k].messages
               msg == new[Len(new)]
           IN  /\ new = LastN(old \o <<msg>>, 500)
               /\ msg.id = resp'.body.id
               /\ msg.id = nsent'
               /\ msg.timestamp = now
       ]_vars
  /\ [](H1 \in DOMAIN rooms /\ nsent = 501
        => /\ Len(rooms[H1].messages) = 500
           /\ \A i \in 1..500 : rooms[H1].messages[i].id = i + 1)

\* The 501st message has just been sent and the first one is gone.
C4_Witness ==
  /\ H1 \in DOMAIN rooms
  /\ nsent = 501
  /\ resp.op = "room" /\ resp.action = "send" /\ resp.body.status = 200
  /\ rooms[H1].messages[1].id = 2
  /\ rooms[H1].messages[500].id = 501

----------------------------------------------------------------------------
(* Rate limiter.                                                           *)

EscalationTable == <<0, 10, 30, 60, 180, 300>>

\* The least whole number of seconds that is at least d ticks (d > 0).
CeilSeconds(d) ==
  CHOOSE n \in 0..d : n * TicksPerSecond >= d /\ (n - 1) * TicksPerSecond < d

\* C5: check allows exactly when no entry is stored, or more than 1800 s
\* have passed since last_attempt, or at least table[min(count, 5)] have;
\* it then stores count 1, respectively count + 1, with last_attempt = now
\* and returns retry_after 0; the example run of the escalation from a
\* fresh address gives retry_after 10 and then 30.
C5_CheckDecision ==
  /\ resp.op = "check" =>
       LET a      == resp.ip
           fresh  == resp.entry = << >>
           e      == resp.entry[1]
           cooled == ~fresh /\ now - e.last_attempt > Sec(1800)
           waited == ~fresh /\ now - e.last_attempt
                                 >= Sec(EscalationTable[Min(e.count, 5) + 1])
       IN  /\ resp.allowed = (fresh \/ cooled \/ waited)
           /\ (fresh \/ cooled)
                => rate[a] = [count |-> 1, last_attempt |-> now]
           /\ (~fresh /\ ~cooled /\ waited)
                => rate[a] = [count |-> e.count + 1, last_attempt |-> now]
           /\ resp.allowed => resp.retry_after = 0
  /\ \A a \in Addresses :
       /\ ( /\ resp.op = "check" /\ resp.ip = a /\ now = 0
            /\ resp.entry = <<[count |-> 1, last_attempt |-> 0]>> )
          => ~resp.allowed /\ resp.retry_after = 10
       /\ ( /\ resp.op = "check" /\ resp.ip = a /\ now = Sec(10)
            /\ resp.entry = <<[count |-> 1, last_attempt |-> 0]>> )
          => resp.allowed /\ rate[a].count = 2
       /\ ( /\ resp.op = "check" /\ resp.ip = a /\ now = Sec(10)
            /\ resp.entry = <<[count |-> 2, last_attempt |-> Sec(10)]>> )
          => ~resp.allowed /\ resp.retry_after = 30

\* The end of the example run: the check right after the one accepted at
\* t = 10 s is denied with retry_after 30.
C5_Witness ==
  /\ now = Sec(10)
  /\ resp.op = "check" /\ ~resp.allowed /\ resp.retry_after = 30
  /\ resp.entry = <<[count |-> 2, last_attempt |-> Sec(10)]>>
  /\ rate[resp.ip] = [count |-> 2, last_attempt |-> Sec(10)]

\* C6: a denied check changes no stored entry, of this address or of any
\* other, and returns retry_after = ceil(required_delay - elapsed) >= 1.
C6_DeniedLeavesEntries ==
  [][(resp'.op = "check" /\ ~resp'.allowed)
     => /\ rate' = rate
        /\ resp'.ip \in DOMAIN rate
        /\ LET e == rate[resp'.ip]
               d == Sec(EscalationTable[Min(e.count, 5) + 1])
                      - (now - e.last_attempt)
           IN  /\ d > 0
               /\ resp'.retry_after = CeilSeconds(d)
        /\ resp'.retry_after >= 1
    ]_vars

\* A check is denied a fraction of a second before the delay is over,
\* while another address has an entry.
C6_Witness ==
  /\ resp.op = "check" /\ ~resp.allowed /\ resp.retry_after = 1
  /\ now - rate[resp.ip].last_attempt = Sec(10) - 1
  /\ \E b \in DOMAIN rate : b # resp.ip

\* C7: a check more than 1800 s after last_attempt is allowed and rewrites
\* the entry to count 1, last_attempt = now, whatever the count was.
C7_CooldownReset ==
  resp.op = "check" /\ resp.entry # << >>
    /\ now > resp.entry[1].last_attempt + Sec(1800)
  => /\ resp.allowed /\ resp.retry_after = 0
     /\ rate[resp.ip] = [count |-> 1, last_attempt |-> now]

\* An entry with count 5 was reset by a check 1800.5 s after its attempt.
C7_Witness ==
  /\ resp.op = "check" /\ resp.allowed
  /\ resp.entry # << >>
  /\ resp.entry[1].count = 5
  /\ now = resp.entry[1].last_attempt + Sec(1800) + 1
  /\ rate[resp.ip].count = 1

\* C10 as stated: after k accepted attempts the required delay is strictly
\* greater than after k - 1, for every k >= 1.
C10_StrictlyLonger ==
  \A a \in DOMAIN rate :
    LET k == rate[a].count IN
    k >= 1 => requiredDelay(k) > requiredDelay(k - 1)

\* C10 as amended: the required delay grows strictly with each accepted
\* attempt up to the fifth, and stays at 300 s from the sixth on.
C10_StrictlyLongerUpToCap ==
  \A a \in DOMAIN rate :
    LET k == rate[a].count IN
    /\ k >= 1
    /\ k <= 5 => requiredDelay(k) > requiredDelay(k - 1)
    /\ k >= 6 => requiredDelay(k) = 300 /\ requiredDelay(k - 1) = 300

\* An address has been accepted six times inside the cooldown window.
C10_Witness ==
  \E a \in DOMAIN rate : rate[a].count = 6 /\ resp.op = "check" /\ resp.allowed

----------------------------------------------------------------------------
(* Router.                                                                 *)

\* C2: a request that is answered with a successful room creation has had
\* its address checked by the rate limiter, and the check allowed it.
C2_CreateOnlyAfterCheck ==
  (resp.op = "http" /\ resp.body.op = "create" /\ resp.body.status = 200)
  => /\ resp.limit = "allowed"
     /\ "rate" \in resp.contacted

\* C8: the first check of an address after one of its joins has returned
\* success finds no entry, is allowed and stores count 1.
C8_CheckAfterJoinIsFresh ==
  (resp.op = "checkRateLimit" /\ resp.afterJoin)
  => /\ resp.fresh
     /\ resp.allowed
     /\ rate[resp.ip].count = 1

\* C9: a request whose room hash has not exactly 16 characters is answered
\* invalid_room_hash (400) and no entity is contacted for it.
C9_BadHashRejectedFirst ==
  /\ (resp.op \in {"http", "checkRateLimit"} /\ Len(resp.hash) # 16)
     => /\ resp.op = "http"
        /\ resp.body.status = 400
        /\ resp.body.error = "invalid_room_hash"
        /\ resp.contacted = {}
  /\ \A s \in Slots : reqs[s].pc = "checked" => Len(reqs[s].room_hash) = 16

----------------------------------------------------------------------------
(* Polling.                                                                *)

\* The answer body to a poll with since on a room holding the messages all
\* is what C11 says it is.
PollAnswer(since, body, all) ==
  LET out == body.messages IN
  /\ \A j \in 1..Len(out) :
       /\ out[j].timestamp > since
       /\ \E i \in 1..Len(all) : all[i] = out[j]
  /\ \A i \in 1..Len(all) :
       all[i].timestamp > since => \E j \in 1..Len(out) : out[j] = all[i]
  /\ \A j1, j2 \in 1..Len(out) : j1 < j2 => out[j1].id < out[j2].id
  /\ since = 0 => out = all
  /\ body.message_count = Len(all)

\* C11: a poll with since = T on a live room returns exactly the retained
\* messages with timestamp > T, in arrival order, and none with timestamp
\* <= T; with since = 0 it returns all retained messages; message_count is
\* the number of retained messages.
C11_PollStrictlyAfterSince ==
  [][/\ \A since \in PollSinces :
          (Poll(H1, H1, since) /\ resp'.body.status = 200)
          => PollAnswer(since, resp'.body, rooms[H1].messages)
     /\ (resp'.op = "caller" /\ resp'.action = "poll"
           /\ resp'.body.status = 200)
          => PollAnswer(resp'.since, resp'.body, rooms[H1].messages)
    ]_vars

\* A poll has held back a message whose timestamp equals since and has
\* returned a later one.
C11_Witness ==
  /\ resp.op = "caller" /\ resp.action = "poll" /\ resp.body.status = 200
  /\ resp.since > 0
  /\ \E i \in 1..Len(rooms[H1].messages) :
       rooms[H1].messages[i].timestamp = resp.since
  /\ Len(resp.body.messages) > 0
  /\ Len(resp.body.messages) < Len(rooms[H1].messages)

\* C12: a poll of the caller returns every retained message appended since
\* its previous poll or join, and no message it was returned before.
C12_RepollSeesEachNewMessageOnce ==
  [][(resp'.op = "caller" /\ resp'.action = "poll"
        /\ resp'.body.status = 200)
     => LET out == resp'.body.messages
            all == rooms[H1].messages
            ids == {out[j].id : j \in 1..Len(out)}
        IN  /\ ids \cap caller.got = {}
            /\ Cardinality(ids) = Len(out)
            /\ \A i \in 1..Len(all) :
                 all[i].id > caller.mark => all[i].id \in ids
    ]_vars

----------------------------------------------------------------------------
(* Members and senders.                                                    *)

\* The entity k holds a record that has not expired.
Live(k) == k \in DOMAIN rooms /\ now <= rooms[k].expires_at

C15_SenderResolution ==
  [][\A p \in MemberSendInputs :
       (Send(H1, H1, p[1], p[2], p[3]) /\ Live(H1))
       => IF p[3] = ""
          THEN /\ resp'.body = Error("send", 400, "missing_content")
               /\ rooms' = rooms
          ELSE /\ resp'.body.status = 200
               /\ LET new == rooms'[H1].messages
                      msg == new[Len(new)]
                  IN  /\ msg.id = resp'.body.id
                      /\ msg.content = p[3]
                      /\ msg.sender =
                           IF p[1] \in DOMAIN rooms[H1].members
                           THEN rooms[H1].members[p[1]]
                           ELSE IF p[2] # "" THEN p[2] ELSE "anon"
    ]_vars

----------------------------------------------------------------------------
(* Creation and lifetime.                                                  *)

\* C14: a create on a key with a live record answers room_exists (409) and
\* leaves the record unchanged; a create succeeds only on an absent room
\* and with the requested hash equal to the room hash, and then the record
\* stored has one member, nicknamed "creator", no messages and
\* expires_at = now + 3600 s.
C14_CreateOnlyWhenAbsent ==
  [][\A rh \in {"", H1, H2}, mid \in MemberIds :
       Create(H1, H1, rh, mid)
       => IF Live(H1)
          THEN /\ resp'.body = Error("create", 409, "room_exists")
               /\ rooms' = rooms
          ELSE IF rh = H1
          THEN /\ resp'.body.status = 200
               /\ resp'.body.member_id = mid
               /\ resp'.body.expires_at = now + Sec(3600)
               /\ rooms'[H1] = [room_hash |-> H1, mode |-> "fixed",
                                created_at |-> now,
                                expires_at |-> now + Sec(3600),
                                members |-> [x \in {mid} |-> "creator"],
                                messages |-> << >>]
          ELSE /\ resp'.body = Error("create", 400, "invalid_room_hash")
               /\ H1 \notin DOMAIN rooms'
    ]_vars

\* A room that held a message has expired and was created again: the new
\* record holds no message.
C14_Witness ==
  /\ resp.op = "room" /\ resp.action = "create" /\ resp.body.status = 200
  /\ now > Sec(3600)
  /\ nsent > 0
  /\ rooms[H1].created_at = now
  /\ rooms[H1].messages = << >>

\* C19: every stored record has expires_at = created_at + 3600 s; join,
\* send, leave, poll and info change none of room_hash, created_at and
\* expires_at; poll and info leave the record of a live room as it is.
C19_LifetimeFixed ==
  /\ [](\A k \in DOMAIN rooms :
          rooms[k].expires_at = rooms[k].created_at + Sec(3600))
  /\ [][( /\ resp'.op = "room"
          /\ resp'.action \in RoomActionsAfterCreate
          /\ H1 \in DOMAIN rooms /\ H1 \in DOMAIN rooms' )
        => /\ rooms'[H1].room_hash = rooms[H1].room_hash
           /\ rooms'[H1].created_at = rooms[H1].created_at
           /\ rooms'[H1].expires_at = rooms[H1].expires_at
       ]_vars
  /\ [][( /\ resp'.op = "room" /\ resp'.action \in {"poll", "info"}
          /\ Live(H1) )
        => rooms' = rooms
       ]_vars

\* An info at the last instant of a room that has a second member and a
\* message: no time remains and the record still stands.
C19_Witness ==
  /\ resp.op = "room" /\ resp.action = "info" /\ resp.body.status = 200
  /\ resp.body.time_remaining = 0
  /\ H1 \in DOMAIN rooms
  /\ now = rooms[H1].created_at + Sec(3600)
  /\ Len(rooms[H1].messages) > 0
  /\ Cardinality(DOMAIN rooms[H1].members) = 2

----------------------------------------------------------------------------
(* Resets of the rate limiter.                                             *)

\* The step deletes the entry of ip, if any, by a reset that a successful
\* join of ip has started.
ResetAfterJoin(ip) ==
  /\ resets[ip] > 0
  /\ resets'[ip] = resets[ip] - 1
  /\ rate' = [a \in DOMAIN rate \ {ip} |-> rate[a]]

\* A reset is started only by a join of that address answered with success.
StartedByJoin ==
  \A ip \in Addresses :
    resets'[ip] > resets[ip]
    => /\ resp'.op = "http" /\ resp'.route = "forward"
       /\ resp'.action = "join" /\ resp'.ip = ip
       /\ resp'.body.status = 200

\* C16 as stated: the entries of the rate limiter change only by the
\* deletion a successful join of the address brings about; the requests
\* for a creation, failed joins, send, poll, leave and info neither reset
\* nor modify any entry.
C16_OnlyJoinTouchesEntries ==
  [][/\ rate' # rate => \E ip \in Addresses : ResetAfterJoin(ip)
     /\ StartedByJoin
    ]_vars

\* C16 as amended: an entry is deleted only by the reset a successful join
\* of its address has started; otherwise entries change only by the
\* allowed check of a POST /room, which writes the entry of its address
\* and never deletes one; the creation itself and every forwarded request
\* leave all entries as they are.
C16_OnlyJoinResetsEntries ==
  [][/\ rate' # rate
          => \/ \E ip \in Addresses : ResetAfterJoin(ip)
             \/ /\ resp'.op = "checkRateLimit" /\ resp'.allowed
                /\ DOMAIN rate' = DOMAIN rate \cup {resp'.ip}
                /\ \A a \in DOMAIN rate \ {resp'.ip} : rate'[a] = rate[a]
     /\ StartedByJoin
     /\ resp'.op = "http" => rate' = rate
    ]_vars

\* An address passed its check for a POST /room, then joined a room, and
\* the reset started by the join has deleted its entry; another address
\* keeps its entry.
C16_Witness ==
  \E ip \in Addresses, s \in Slots :
    /\ reqs[s].pc = "checked" /\ reqs[s].ip = ip
    /\ ip \in joined
    /\ resets[ip] = 0
    /\ ip \notin DOMAIN rate
    /\ resp.op = "none"
    /\ DOMAIN rate # {}

----------------------------------------------------------------------------
(* Wait hints and the entries of the rate limiter.                         *)

\* C18: a check of an address that was denied at t with retry_after = r
\* and has had no allowed check since is allowed when it comes at t + r or
\* later; no retry_after exceeds 300.
C18_HintSuffices ==
  /\ [][resp'.op = "check"
        => \A h \in hints[resp'.ip] :
             now >= h.at + Sec(h.retry_after) => resp'.allowed
       ]_vars
  /\ [](\A ip \in Addresses : \A h \in hints[ip] :
          h.retry_after <= 300)

\* A check was denied with retry_after 300 a fraction of a second after
\* the attempt before it, and the check exactly 300 s after the denial is
\* allowed.
C18_Witness ==
  /\ resp.op = "check" /\ resp.ip \in HintClients /\ resp.allowed
  /\ resp.entry # << >>
  /\ \E h \in resp.hinted :
       /\ h.retry_after = 300
       /\ h.at > resp.entry[1].last_attempt
       /\ now = h.at + Sec(300)

\* C20: every stored entry has count >= 1; a check leaves the entry as it
\* is (denied), adds one to count (allowed within the cooldown window) or
\* sets count to 1 (no entry, or more than 1800 s since last_attempt), and
\* touches no other address; a reset deletes the entry; count decreases
\* only by being set to 1 or by the deletion, and last_attempt never
\* decreases.
C20_CountSteps ==
  /\ [](\A a \in DOMAIN rate : rate[a].count >= 1)
  /\ [][resp'.op = "check"
        => LET a == resp'.ip IN
           /\ \A b \in Addresses \ {a} :
                /\ b \in DOMAIN rate' <=> b \in DOMAIN rate
                /\ b \in DOMAIN rate => rate'[b] = rate[b]
           /\ a \in DOMAIN rate'
           /\ IF a \notin DOMAIN rate
              THEN resp'.allowed
                   /\ rate'[a] = [count |-> 1, last_attempt |-> now]
              ELSE LET e == rate[a] IN
                   \/ ~resp'.allowed /\ rate'[a] = e
                   \/ /\ resp'.allowed
                      /\ now - e.last_attempt <= Sec(1800)
                      /\ rate'[a] = [count |-> e.count + 1,
                                     last_attempt |-> now]
                   \/ /\ resp'.allowed
                      /\ now - e.last_attempt > Sec(1800)
                      /\ rate'[a] = [count |-> 1, last_attempt |-> now]
       ]_vars
  /\ [][resp'.op = "reset"
        => rate' = [a \in DOMAIN rate \ {resp'.ip} |-> rate[a]]
       ]_vars
  /\ [][\A a \in DOMAIN rate \cap DOMAIN rate' :
          /\ rate'[a].last_attempt >= rate[a].last_attempt
          /\ rate'[a].count < rate[a].count => rate'[a].count = 1
       ]_vars

\* An entry that had reached count 6 was set back to count 1 by a check
\* after the cooldown, while the entry of another address stands at 2.
C20_Witness ==
  /\ resp.op = "check" /\ resp.allowed
  /\ resp.entry # << >>
  /\ resp.entry[1].count = 6
  /\ rate[resp.ip].count = 1
  /\ \E b \in DOMAIN rate : b # resp.ip /\ rate[b].count = 2

----------------------------------------------------------------------------
(* Overlapping requests.                                                   *)

\* C17: a join, send or leave that answers with success leaves in the
\* stored record every message it held and the new one, every member it
\* held and the new one, respectively every member but the one that left:
\* no effect of an overlapping request is lost; a create that answers with
\* success found no record stored, so that of two overlapping creates on
\* an absent room one fails.
C17_NoLostUpdate ==
  [][(resp'.op = "room" /\ resp'.body.status = 200)
     => LET a == resp'.action IN
        /\ a \in {"join", "send", "leave"}
           => /\ H1 \in DOMAIN rooms /\ H1 \in DOMAIN rooms'
              /\ LET old == rooms[H1]
                     new == rooms'[H1]
                 IN  /\ Len(new.messages) >= Len(old.messages)
                     /\ \A i \in 1..Len(old.messages) :
                          new.messages[i] = old.messages[i]
                     /\ a = "send"
                        => /\ Len(new.messages) = Len(old.messages) + 1
                           /\ new.messages[Len(new.messages)].id
                                = resp'.body.id
                     /\ a # "leave"
                        => DOMAIN old.members \subseteq DOMAIN new.members
                     /\ a = "join"
                        => resp'.body.member_id \in DOMAIN new.members
                     /\ a = "leave"
                        => DOMAIN new.members
                             = DOMAIN old.members \ {resp'.data.member_id}
        /\ a = "create" => H1 \notin DOMAIN rooms
    ]_vars

====
